---- MODULE Spec2Model ----
(***************************************************************************)
(* Model of the hardware-aware HSM group planner of clstr:                 *)
(*   src/src/cli/commands/apply_hsm_based_on_component_quantity.rs         *)
(*                                                                         *)
(* The specifications below share one set of variables.                    *)
(*   Spec      the planner proper (exec after the two fetch phases): the   *)
(*             collective inventory, capacity validation, the initial      *)
(*             scoring and the upscale migration loop, the final sort.     *)
(*   SpecTwice Spec followed by a second run on the same inputs.           *)
(*   SpecDown  utils::downscale_node_migration, the downscale loop.        *)
(*   SpecFetch the two bounded-concurrency fetch phases of exec (JoinSet   *)
(*             and a 5-permit semaphore); FairSpecFetch adds the fairness  *)
(*             of the tokio scheduler and of a transport that answers.     *)
(*                                                                         *)
(* Scores.  The source computes w(k) = (qty(k)*100) as f32 / total as f32  *)
(* and sums +-(100 - w(k)).  The model keeps every score multiplied by     *)
(* total, an exact integer: (100 - w(k)) * total = 100*total - 100*qty(k). *)
(* total is the same for every node of a run, so the order of the scores   *)
(* is the order of the scaled scores.  f32::MIN and NaN (total = 0) are    *)
(* kept as separate kinds of score.  Rounding of the f32 sums can only     *)
(* separate scores that are exactly equal; the choice among equal scores   *)
(* is already any of them (the score vector is drained from a HashMap).     *)
(***************************************************************************)
EXTENDS Integers, Sequences, FiniteSets, TLC

\* ---------------------------------------------------------------- bounds
MaxNodes == 2
MaxAccels == 2
MaxProcs == 1
MaxDimms == 1
MaxRequest == 2
MaxMembers == 6
MaxTokens == 4

\* ------------------------------------------------------ program constants
mem_lcm == 16384
DimmCapacityMiB == 16384
SemaphorePermits == 5

NodeIds == 1..MaxNodes

ProcessorModel == "amd epyc"
AcceleratorModel == "nvidia a100"
MemoryKey == "memory"

\* the component names a user may put in the pattern
UserPatterns == {"a100", "epyc"}

AllKeys == UserPatterns \cup {ProcessorModel, AcceleratorModel, MemoryKey}

\* str::contains(model, pattern) on the lower-cased model strings above
StrContains(model, pattern) ==
    \/ model = pattern
    \/ <<model, pattern>> \in {<<"nvidia a100", "a100">>, <<"amd epyc", "epyc">>}

\* An inventory document: the number of processor entries, of accelerator
\* entries and of memory DIMMs under /Nodes/0.
Docs == [nproc : 0..MaxProcs, naccel : 0..MaxAccels, ndimm : 0..MaxDimms]

VARIABLES
    pc,            \* position of exec / of the loop
    membership,    \* node -> "T" | "P" | "TP" | "-" : the groups it is a member of
    doc,           \* node -> inventory document returned by the transport
    fetchFailed,   \* nodes whose inventory fetch task panicked
    pattern,       \* user_defined_hw_component_count_hashmap as parsed
    userOrder,     \* iteration order of that HashMap
    vec,           \* the working inventory (candidate vector) of the loop
    demand,        \* hw components yet to migrate (key -> isize)
    best,          \* best_candidate (node id, 0 before the first choice)
    migrated,      \* nodes_migrated_from_*_hsm
    plan,          \* the printed solution [target, parent]
    prevPlan,      \* plan of the previous run on the same inputs
    run,           \* 1 for the first run, 2 for the re-run
    permits,       \* free permits of the semaphore
    toSpawn,       \* members of the current group not yet spawned
    inflight,      \* spawned tasks whose inventory request is outstanding
    finished,      \* tasks that ended (ok or panicked) and wait in the JoinSet
    joined,        \* results pushed by the join loop (node ids)
    group,         \* members of the group being fetched
    fetched,       \* [target, parent]: the sorted vector each join loop left (node ids)
    failure,       \* the diagnostic of exit(1): [key, requested, available]
    userCount,     \* user_defined_hw_component_count_hashmap after retain
    hsmCount,      \* target_parent_hsm_hw_component_count_hashmap
    hsmTotal,      \* target_parent_hsm_total_number_hw_components
    scores,        \* the score vector (node -> score) the candidate was taken from
    pattern_arg,   \* the pattern argument of exec, cut at its ':' (group name first)
    hsmGroups,     \* the group service: label -> member ids of the groups it has
    pattern_element_vec,      \* the tokens the chunks(2) loop has yet to read
    target_hsm_group_name,    \* the first token of the lower-cased pattern
    user_defined_hw_component_count_hashmap,  \* the mapping the loop builds
    hsm_group_target_members, \* members of the target group as looked up
    hsm_group_parent_members, \* members of the parent group as looked up
    calls,         \* the requests sent to the group and inventory services
    logged,        \* number of log::error! messages about the pattern
    panicked       \* "" or the panic that ended exec

\* the variables of the planner and of the fetch phases, pc apart
planVars == <<membership, doc, fetchFailed, pattern, userOrder, vec, demand,
              best, migrated, plan, prevPlan, run, permits, toSpawn, inflight,
              finished, joined, group, fetched, failure,
              userCount, hsmCount, hsmTotal, scores>>

\* the variables of the head of exec: the pattern and the group lookups
startVars == <<pattern_arg, hsmGroups, pattern_element_vec, target_hsm_group_name,
               user_defined_hw_component_count_hashmap, hsm_group_target_members,
               hsm_group_parent_members, calls, logged, panicked>>

vars == <<pc, planVars, startVars>>

\* ------------------------------------------------------------ sequences
Min(S) == CHOOSE x \in S : \A y \in S : x <= y

RECURSIVE SortedSeq(_)
SortedSeq(S) == IF S = {} THEN <<>> ELSE <<Min(S)>> \o SortedSeq(S \ {Min(S)})

RECURSIVE SumSeq(_)
SumSeq(s) == IF s = <<>> THEN 0 ELSE Head(s) + SumSeq(Tail(s))

RECURSIVE SumSet(_, _)
SumSet(f, S) ==
    IF S = {} THEN 0
    ELSE LET x == CHOOSE y \in S : TRUE IN f[x] + SumSet(f, S \ {x})

Range(s) == {s[i] : i \in 1..Len(s)}

Perms(S) == {p \in [1..Cardinality(S) -> S] : \A i, j \in 1..Cardinality(S) : p[i] = p[j] => i = j}

NodesOf(v) == {v[i].node : i \in 1..Len(v)}

\* a retain that drops the first entry instead of the named one
Retain_ByPosition(v, name) == Tail(v)

\* a retain that drops nothing
Retain_Nothing(v, name) == v

\* Vec::retain(|(node, _)| !node.eq(name))
Retain(v, name) == SelectSeq(v, LAMBDA e : e.node # name)

\* a vector left in the order the loop built it
SortByNode_Skipped(v) == v

\* slice::sort_by on the node name (stable; equal names keep their order)
RECURSIVE SortByNode(_)
SortByNode(v) ==
    IF v = <<>> THEN <<>>
    ELSE LET m == Min(NodesOf(v))
         IN SelectSeq(v, LAMBDA e : e.node = m)
            \o SortByNode(SelectSeq(v, LAMBDA e : e.node # m))

\* ------------------------------------------------------------ fingerprint
\* the key a model string is tallied under: the first user pattern (in the
\* order of the key vector handed to the task) it contains, else itself
KeyFor(model, hw_component_pattern_list) ==
    LET hits == {i \in 1..Len(hw_component_pattern_list) :
                    StrContains(model, hw_component_pattern_list[i])}
    IN IF hits = {} THEN model ELSE hw_component_pattern_list[Min(hits)]

\* get_node_hw_properties_from_value: (component keys, DIMM capacities)
get_node_hw_properties_from_value(d, hw_component_pattern_list) ==
    [components |->
        [i \in 1..d.nproc |-> KeyFor(ProcessorModel, hw_component_pattern_list)]
        \o [i \in 1..d.naccel |-> KeyFor(AcceleratorModel, hw_component_pattern_list)],
     memory |-> [i \in 1..d.ndimm |-> DimmCapacityMiB]]

\* the per-node counter map built by the join loop of exec.  A key is in the
\* map iff its count is positive, except "memory", which is always inserted.
NodeHwComponentCount(d, hw_component_pattern_list) ==
    LET p == get_node_hw_properties_from_value(d, hw_component_pattern_list)
    IN [k \in AllKeys |->
          IF k = MemoryKey THEN SumSeq(p.memory) \div mem_lcm
          ELSE Cardinality({i \in 1..Len(p.components) : p.components[i] = k})]

Has(hw, k) == k = MemoryKey \/ hw[k] > 0

KeysOf(hw) == {k \in AllKeys : Has(hw, k)}

\* -------------------------------------------------------------- aggregator
\* counters taken from the first entry of the vector alone
calculate_hsm_hw_component_count_FirstOnly(v) ==
    [k \in AllKeys |-> IF v = <<>> THEN 0 ELSE v[1].hw[k]]

\* calculate_hsm_hw_component_count: key -> summed count; a key is in the
\* HashMap iff some entry of the vector carries it (HsmHas)
calculate_hsm_hw_component_count(v) ==
    [k \in AllKeys |-> SumSeq([i \in 1..Len(v) |-> v[i].hw[k]])]

HsmHas(v, k) == \E i \in 1..Len(v) : Has(v[i].hw, k)

\* get_hsm_hw_component_count_filtered_by_user_request: one entry per user key
get_hsm_hw_component_count_filtered_by_user_request(user_keys, v) ==
    [x \in user_keys |-> SumSeq([i \in 1..Len(v) |-> v[i].hw[x]])]

\* calculate_hsm_total_number_hw_components
calculate_hsm_total_number_hw_components(v) ==
    SumSeq([i \in 1..Len(v) |-> SumSet(v[i].hw, AllKeys)])

\* calculate_node_density_score: node -> sum of its counters
calculate_node_density_score(v) ==
    [n \in NodesOf(v) |->
        LET i == CHOOSE j \in 1..Len(v) : v[j].node = n /\ \A l \in j + 1..Len(v) : v[l].node # n
        IN SumSet(v[i].hw, AllKeys)]

\* calculate_hsm_hw_component_normalized_density_score_from_hsm_node_hw_component_count_vec:
\* the numerator qty * 100 of each weight; the weight is this over `total`
NormalizedNumerators(hsm_hw_component_count) ==
    [k \in AllKeys |-> hsm_hw_component_count[k] * 100]

\* ---------------------------------------------------------- delta engine
\* HashMap::retain: a function restricted to the keys that satisfy keep
RestrictTo(f, keep) == [k \in DOMAIN f \cap keep |-> f[k]]

\* calculate_all_deltas: (to migrate from target to parent, from parent to target)
calculate_all_deltas(user, summary) ==
    LET delta(k) == user[k] - summary[k]
    IN [to_parent |-> [k \in {x \in DOMAIN user : delta(x) < 0} |-> delta(k)],
        to_target |-> [k \in {x \in DOMAIN user : delta(x) > 0} |-> -delta(k)]]

\* an update that takes the candidate's counters off the counters to migrate
update_user_defined_hw_component_counters_Subtract(counters, candidate) ==
    [k \in DOMAIN counters |->
        IF Has(candidate, k) THEN counters[k] - candidate[k] ELSE counters[k]]

\* update_user_defined_hw_component_counters: add the candidate's counters to
\* the (negative) counters to migrate; an entry that becomes positive is dropped
update_user_defined_hw_component_counters(counters, candidate) ==
    LET new(k) == IF Has(candidate, k) THEN counters[k] + candidate[k] ELSE counters[k]
    IN [k \in {x \in DOMAIN counters : new(x) <= 0} |-> new(k)]

Abs(x) == IF x < 0 THEN -x ELSE x

\* keep_iterating_upscale: some counter to migrate is not zero
keep_iterating_upscale(counters) == \E k \in DOMAIN counters : Abs(counters[k]) > 0

\* a loop test that does not compare the candidate with what is outstanding
keep_iterating_downscale_NoFloor(counters, best_candidate_counters) ==
    ~ \A k \in KeysOf(best_candidate_counters) : k \notin DOMAIN counters

\* keep_iterating_downscale
keep_iterating_downscale(counters, best_candidate_counters) ==
    /\ ~ \A k \in KeysOf(best_candidate_counters) : k \notin DOMAIN counters
    /\ ~ \E k \in DOMAIN counters :
            Has(best_candidate_counters, k) /\ Abs(counters[k]) < best_candidate_counters[k]

\* ------------------------------------------------------------------ scorer
\* A score is f32::MIN, NaN or a number (kept multiplied by `total`).
ScoreMin == [kind |-> "min", v |-> 0]
ScoreNaN == [kind |-> "nan", v |-> 0]
ScoreNum(x) == [kind |-> "num", v |-> x]

\* can_node_be_removed_without_violating_user_request: decided on the FIRST
\* user key, in the iteration order of the user HashMap, that the node carries
can_node_be_removed_without_violating_user_request(hw, order, user, totals) ==
    LET carried == {i \in 1..Len(order) : Has(hw, order[i])}
    IN IF carried = {} THEN TRUE
       ELSE LET k == order[Min(carried)] IN totals[k] - hw[k] >= user[k]

\* 100 - w(k), multiplied by total
Contribution(k, numerators, total) == 100 * total - numerators[k]

\* one node of calculate_hsm_hw_component_normalized_node_density_score_downscale
DownscaleNodeScore(hw, to_migrate, order, user, numerators, totals, total) ==
    IF ~can_node_be_removed_without_violating_user_request(hw, order, user, totals)
    THEN ScoreMin
    ELSE IF total = 0 THEN ScoreNaN
    ELSE ScoreNum(SumSet(
            [k \in AllKeys |->
                IF ~Has(hw, k) THEN 0
                ELSE IF k \in DOMAIN to_migrate /\ Abs(to_migrate[k]) > 0
                     THEN Contribution(k, numerators, total)
                     ELSE -Contribution(k, numerators, total)],
            AllKeys))

\* node -> score: the HashMap<String, f32> the function fills (one entry per name;
\* a later entry of the vector with the same name overwrites an earlier one)
LastEntry(v, n) == v[CHOOSE j \in 1..Len(v) : v[j].node = n /\ \A l \in j + 1..Len(v) : v[l].node # n]

FirstEntry(v, n) == v[CHOOSE j \in 1..Len(v) : v[j].node = n /\ \A l \in 1..j - 1 : v[l].node # n]

calculate_hsm_hw_component_normalized_node_density_score_downscale(v, to_migrate, order, user, numerators, totals, total) ==
    [n \in NodesOf(v) |->
        DownscaleNodeScore(LastEntry(v, n).hw, to_migrate, order, user, numerators, totals, total)]

\* one node of calculate_hsm_hw_component_normalized_node_density_score_upscale
UpscaleNodeScore(hw, to_migrate, numerators, total) ==
    IF total = 0 THEN ScoreNaN
    ELSE ScoreNum(SumSet(
            [k \in AllKeys |->
                IF ~Has(hw, k) THEN 0
                ELSE IF k \in DOMAIN to_migrate /\ Abs(to_migrate[k]) > 0
                     THEN Contribution(k, numerators, total)
                     ELSE -Contribution(k, numerators, total)],
            AllKeys))

calculate_hsm_hw_component_normalized_node_density_score_upscale(v, to_migrate, numerators, total) ==
    [n \in NodesOf(v) |-> UpscaleNodeScore(LastEntry(v, n).hw, to_migrate, numerators, total)]

\* a.partial_cmp(b) is Less or Equal (defined when neither is NaN)
ScoreLE(a, b) ==
    \/ a.kind = "min"
    \/ a.kind = "num" /\ b.kind = "num" /\ a.v <= b.v

\* sort_by(partial_cmp().unwrap()) panics as soon as two scores are compared
\* and one of them is NaN
BestCandidatePanics(score_vec) ==
    Cardinality(DOMAIN score_vec) >= 2 /\ \E n \in DOMAIN score_vec : score_vec[n].kind = "nan"

\* get_best_candidate_to_upscale_migrate_f32_score (and ..._downscale_..., the
\* same code): the score vector is drained from a HashMap, sorted by score
\* (stable) and max_by takes the last maximum: whichever node of the highest
\* score the HashMap yields last
BestCandidates(score_vec) ==
    {n \in DOMAIN score_vec :
        \A m \in DOMAIN score_vec \ {n} : ScoreLE(score_vec[m], score_vec[n])}

\* ------------------------------------------------- exec: derived from inputs
TargetMembers == {n \in DOMAIN membership : membership[n] \in {"T", "TP"}}

ParentMembers == {n \in DOMAIN membership : membership[n] \in {"P", "TP"}}

\* the vector the join loop of a group leaves, sorted by node name: one entry
\* per member whose task did not panic
HsmNodeHwComponentCountVec(members) ==
    LET ids == SortedSeq(members \ fetchFailed)
    IN [i \in 1..Len(ids) |->
          [node |-> ids[i], hw |-> NodeHwComponentCount(doc[ids[i]], userOrder)]]

\* target_parent_hsm_node_hw_component_count_vec as built: target entries, then parent entries
Collective ==
    HsmNodeHwComponentCountVec(TargetMembers) \o HsmNodeHwComponentCountVec(ParentMembers)

\* iteration order of the userCount HashMap after retain
UserIter == SelectSeq(userOrder, LAMBDA k : k \in DOMAIN userCount)

\* a capacity test that lets a request through when it is one unit short
Deficient_OffByOne(order, request, available) ==
    SelectSeq(order, LAMBDA k : available[k] + 1 < request[k])

\* the userCount keys the collective cannot supply, in iteration order
Deficient(order, request, available) ==
    SelectSeq(order, LAMBDA k : available[k] < request[k])

NoFailure == [key |-> "", requested |-> 0, available |-> 0]

NoPlan == [target |-> <<>>, parent |-> <<>>, made |-> FALSE]

NoCounts == [k \in AllKeys |-> 0]

\* ------------------------------------------------------------ exec: actions
\* the two fetch phases of exec seen from the planner: each leaves the vector
\* of its group sorted by node name, and the collective vector is the target
\* vector followed by the parent vector
FetchInventories ==
    /\ pc = "start"
    /\ vec' = Collective
    /\ pc' = "fetched"
    /\ UNCHANGED <<startVars, membership, doc, fetchFailed, pattern, userOrder, demand, best,
                   migrated, plan, prevPlan, run, permits, toSpawn, inflight,
                   finished, joined, group, fetched, failure, userCount, hsmCount, hsmTotal,
                   scores>>

\* the collective counters are built, the request is filtered by the keys of
\* the collective (retain) and checked against the collective counters
Validate ==
    /\ pc = "fetched"
    /\ LET cnt == calculate_hsm_hw_component_count(vec)
           u == RestrictTo(pattern, {k \in AllKeys : HsmHas(vec, k)})
           short == Deficient(SelectSeq(userOrder, LAMBDA k : k \in DOMAIN u), u, cnt)
       IN /\ hsmCount' = cnt
          /\ hsmTotal' = calculate_hsm_total_number_hw_components(vec)
          /\ userCount' = u
          /\ IF short # <<>>
             THEN /\ pc' = "failed"
                  /\ failure' = [key |-> short[1], requested |-> u[short[1]],
                                 available |-> cnt[short[1]]]
             ELSE /\ pc' = "validated"
                  /\ failure' = failure
    /\ UNCHANGED <<startVars, membership, doc, fetchFailed, pattern, userOrder, vec, demand, best,
                   migrated, plan, prevPlan, run, permits, toSpawn, inflight,
                   finished, joined, group, fetched, scores>>

\* the deltas as exec computes them: the request after retain against the
\* filtered counters of the collective vector v
ExecDeltas(v) ==
    calculate_all_deltas(userCount,
        get_hsm_hw_component_count_filtered_by_user_request(DOMAIN pattern, v))

\* the first choice of a candidate: exec scores the collective with the
\* DOWNSCALE score and upscale_node_migration takes the best of it
StartMigration ==
    /\ pc = "validated"
    /\ demand' = [k \in DOMAIN userCount |-> -userCount[k]]
    /\ LET to_parent == ExecDeltas(vec).to_parent
       IN scores' = calculate_hsm_hw_component_normalized_node_density_score_downscale(
                        vec, to_parent, UserIter, userCount,
                        NormalizedNumerators(hsmCount), hsmCount, hsmTotal)
    /\ IF vec = <<>>
       THEN pc' = "sort" /\ best' = best
       ELSE IF BestCandidatePanics(scores')
       THEN pc' = "panicked" /\ best' = best
       ELSE /\ best' \in BestCandidates(scores')
            /\ pc' = IF keep_iterating_upscale(demand') THEN "iterate" ELSE "sort"
    /\ UNCHANGED <<startVars, membership, doc, fetchFailed, pattern, userOrder, vec,
                   migrated, plan, prevPlan, run, permits, toSpawn, inflight,
                   finished, joined, group, fetched, failure, userCount, hsmCount, hsmTotal>>

\* one iteration of the while loop of upscale_node_migration
Iterate ==
    /\ pc = "iterate"
    /\ LET counters == FirstEntry(vec, best).hw
           rest == Retain(vec, best)
       IN /\ migrated' = Append(migrated, [node |-> best, hw |-> counters])
          /\ vec' = rest
          /\ IF rest = <<>>
             THEN pc' = "sort" /\ UNCHANGED <<demand, best, scores>>
             ELSE /\ demand' = update_user_defined_hw_component_counters(demand, counters)
                  /\ scores' = calculate_hsm_hw_component_normalized_node_density_score_upscale(
                                  rest, demand', NormalizedNumerators(hsmCount), hsmTotal)
                  /\ IF BestCandidatePanics(scores')
                     THEN pc' = "panicked" /\ best' = best
                     ELSE /\ best' \in BestCandidates(scores')
                          /\ pc' = IF keep_iterating_upscale(demand') THEN "iterate" ELSE "sort"
    /\ UNCHANGED <<startVars, membership, doc, fetchFailed, pattern, userOrder,
                   plan, prevPlan, run, permits, toSpawn, inflight,
                   finished, joined, group, fetched, failure, userCount, hsmCount, hsmTotal>>

\* the solution: the migrated nodes are the target group, what is left of
\* the collective vector is the parent group, both sorted by node name
Finish ==
    /\ pc = "sort"
    /\ LET t == SortByNode(migrated)
           p == SortByNode(vec)
       IN plan' = [target |-> [i \in 1..Len(t) |-> t[i].node],
                   parent |-> [i \in 1..Len(p) |-> p[i].node],
                   made |-> TRUE]
    /\ pc' = "done"
    /\ UNCHANGED <<startVars, membership, doc, fetchFailed, pattern, userOrder, vec, demand, best,
                   migrated, prevPlan, run, permits, toSpawn, inflight,
                   finished, joined, group, fetched, failure, userCount, hsmCount, hsmTotal,
                   scores>>

Patterns == UNION {[S -> 0..MaxRequest] : S \in SUBSET UserPatterns}

NoFetched == [target |-> <<>>, parent |-> <<>>]

\* the variables of the fetch phases, at rest
FetchIdle ==
    /\ permits = SemaphorePermits
    /\ toSpawn = <<>>
    /\ inflight = {}
    /\ finished = {}
    /\ joined = <<>>
    /\ group = {}
    /\ fetched = NoFetched

\* the variables of the head of exec, once it is past the group lookups
StartIdle ==
    /\ pattern_arg = <<>>
    /\ hsmGroups = <<>>
    /\ pattern_element_vec = <<>>
    /\ target_hsm_group_name = ""
    /\ user_defined_hw_component_count_hashmap = <<>>
    /\ hsm_group_target_members = {}
    /\ hsm_group_parent_members = {}
    /\ calls = <<>>
    /\ logged = 0
    /\ panicked = ""

\* the locals of exec before it runs
ExecFresh ==
    /\ pc = "start"
    /\ vec = <<>>
    /\ demand = <<>>
    /\ best = 0
    /\ migrated = <<>>
    /\ plan = NoPlan
    /\ failure = NoFailure
    /\ userCount = <<>>
    /\ hsmCount = NoCounts
    /\ hsmTotal = 0
    /\ scores = <<>>

Init ==
    /\ membership \in [NodeIds -> {"T", "P", "TP"}]
    /\ doc \in [NodeIds -> Docs]
    /\ fetchFailed \in SUBSET NodeIds
    /\ pattern \in Patterns
    /\ userOrder \in Perms(DOMAIN pattern)
    /\ prevPlan = NoPlan
    /\ run = 1
    /\ ExecFresh
    /\ FetchIdle
    /\ StartIdle

Next == FetchInventories \/ Validate \/ StartMigration \/ Iterate \/ Finish

Spec == Init /\ [][Next]_vars

\* ------------------------------------------------------------- two runs
\* the program is started again on the same groups, inventories and pattern;
\* the user HashMap of the new process has an iteration order of its own
Rerun ==
    /\ pc = "done"
    /\ run = 1
    /\ run' = 2
    /\ prevPlan' = plan
    /\ userOrder' \in Perms(DOMAIN pattern)
    /\ pc' = "start"
    /\ vec' = <<>>
    /\ demand' = <<>>
    /\ best' = 0
    /\ migrated' = <<>>
    /\ plan' = NoPlan
    /\ failure' = NoFailure
    /\ userCount' = <<>>
    /\ hsmCount' = NoCounts
    /\ hsmTotal' = 0
    /\ scores' = <<>>
    /\ UNCHANGED <<startVars, membership, doc, fetchFailed, pattern, permits, toSpawn, inflight,
                   finished, joined, group, fetched>>

NextTwice == Next \/ Rerun

SpecTwice == Init /\ [][NextTwice]_vars

\* the program is started again with the groups as the solution of the first
\* run left them, on the same inventories and the same pattern
Replan ==
    /\ pc = "done"
    /\ run = 1
    /\ run' = 2
    /\ prevPlan' = plan
    /\ membership' = [n \in NodeIds |->
                        IF n \in Range(plan.target) THEN "T"
                        ELSE IF n \in Range(plan.parent) THEN "P" ELSE "-"]
    /\ userOrder' \in Perms(DOMAIN pattern)
    /\ pc' = "start"
    /\ vec' = <<>>
    /\ demand' = <<>>
    /\ best' = 0
    /\ migrated' = <<>>
    /\ plan' = NoPlan
    /\ failure' = NoFailure
    /\ userCount' = <<>>
    /\ hsmCount' = NoCounts
    /\ hsmTotal' = 0
    /\ scores' = <<>>
    /\ UNCHANGED <<startVars, doc, fetchFailed, pattern, permits, toSpawn, inflight,
                   finished, joined, group, fetched>>

NextReplan == Next \/ Replan

SpecReplan == Init /\ [][NextReplan]_vars

\* ------------------------------------------- utils::downscale_node_migration
\* the arguments of downscale_node_migration for a target group: its sorted
\* inventory vector, the request, the counters to migrate to the parent
\* (calculate_all_deltas), the weights and the scores of the vector
DownscaleArguments ==
    /\ pc = "down_args"
    /\ LET v == HsmNodeHwComponentCountVec(TargetMembers)
           cnt == calculate_hsm_hw_component_count(v)
           total == calculate_hsm_total_number_hw_components(v)
           to_parent == calculate_all_deltas(pattern,
                            get_hsm_hw_component_count_filtered_by_user_request(
                                DOMAIN pattern, v)).to_parent
       IN /\ vec' = v
          /\ userCount' = pattern
          /\ hsmCount' = cnt
          /\ hsmTotal' = total
          /\ demand' = to_parent
          /\ scores' = calculate_hsm_hw_component_normalized_node_density_score_downscale(
                          v, to_parent, userOrder, pattern,
                          NormalizedNumerators(cnt), cnt, total)
    /\ pc' = "down_start"
    /\ UNCHANGED <<startVars, membership, doc, fetchFailed, pattern, userOrder, best,
                   migrated, plan, prevPlan, run, permits, toSpawn, inflight,
                   finished, joined, group, fetched, failure>>

\* downscale_node_migration up to the while loop: nothing to choose from, or
\* the first best candidate and the first work_to_do
DownscaleStart ==
    /\ pc = "down_start"
    /\ IF scores = <<>>
       THEN pc' = "down_done" /\ best' = best
       ELSE IF BestCandidatePanics(scores)
       THEN pc' = "panicked" /\ best' = best
       ELSE /\ best' \in BestCandidates(scores)
            /\ pc' = IF keep_iterating_downscale(demand, FirstEntry(vec, best').hw)
                     THEN "down_iterate" ELSE "down_done"
    /\ UNCHANGED <<startVars, membership, doc, fetchFailed, pattern, userOrder, vec, demand,
                   migrated, plan, prevPlan, run, permits, toSpawn, inflight,
                   finished, joined, group, fetched, failure, userCount, hsmCount,
                   hsmTotal, scores>>

\* one iteration of the while loop of downscale_node_migration
DownscaleIterate ==
    /\ pc = "down_iterate"
    /\ LET counters == FirstEntry(vec, best).hw
           rest == Retain(vec, best)
       IN /\ migrated' = Append(migrated, [node |-> best, hw |-> counters])
          /\ vec' = rest
          /\ IF rest = <<>>
             THEN pc' = "down_done" /\ UNCHANGED <<demand, best, scores>>
             ELSE /\ demand' = update_user_defined_hw_component_counters(demand, counters)
                  /\ scores' = calculate_hsm_hw_component_normalized_node_density_score_downscale(
                                  rest, demand', userOrder, userCount,
                                  NormalizedNumerators(hsmCount),
                                  calculate_hsm_hw_component_count(rest), hsmTotal)
                  /\ IF BestCandidatePanics(scores')
                     THEN pc' = "panicked" /\ best' = best
                     ELSE /\ best' \in BestCandidates(scores')
                          /\ pc' = IF keep_iterating_downscale(demand', FirstEntry(rest, best').hw)
                                   THEN "down_iterate" ELSE "down_done"
    /\ UNCHANGED <<startVars, membership, doc, fetchFailed, pattern, userOrder,
                   plan, prevPlan, run, permits, toSpawn, inflight,
                   finished, joined, group, fetched, failure, userCount, hsmCount,
                   hsmTotal>>

InitDown ==
    /\ membership = [n \in NodeIds |-> "T"]
    /\ doc \in [NodeIds -> Docs]
    /\ fetchFailed = {}
    /\ pattern \in Patterns
    /\ userOrder \in Perms(DOMAIN pattern)
    /\ prevPlan = NoPlan
    /\ run = 1
    /\ pc = "down_args"
    /\ vec = <<>>
    /\ demand = <<>>
    /\ best = 0
    /\ migrated = <<>>
    /\ plan = NoPlan
    /\ failure = NoFailure
    /\ userCount = <<>>
    /\ hsmCount = NoCounts
    /\ hsmTotal = 0
    /\ scores = <<>>
    /\ FetchIdle
    /\ StartIdle

NextDown == DownscaleArguments \/ DownscaleStart \/ DownscaleIterate

SpecDown == InitDown /\ [][NextDown]_vars

\* ------------------------------------------------ exec: the fetch phases
\* the nodes of the groups whose inventories are fetched
FetchMembers == 1..MaxMembers

\* an acquire that never waits
CanAcquire_Always(p) == TRUE

\* sem.acquire_owned().await returns when a permit is free
CanAcquire(p) == p > 0

\* a task that ends and keeps its permit
ReleasePermit_Kept(p) == p

\* a task that ends, by returning or by panicking, drops its permit
ReleasePermit(p) == p + 1

\* a join loop that ends as soon as no finished task is waiting
JoinSetEmpty_NoneWaiting(running, waiting) == waiting = {}

\* tasks.join_next() yields None: every spawned task has been joined
JoinSetEmpty(running, waiting) == running = {} /\ waiting = {}

SpawnPhases == {"target_spawn", "parent_spawn"}

JoinPhases == {"target_join", "parent_join"}

\* one turn of the for loop over the members: wait for a permit, spawn the task
SpawnTask ==
    /\ pc \in SpawnPhases
    /\ toSpawn # <<>>
    /\ CanAcquire(permits)
    /\ permits' = permits - 1
    /\ inflight' = inflight \cup {Head(toSpawn)}
    /\ toSpawn' = Tail(toSpawn)
    /\ UNCHANGED <<startVars, pc, membership, doc, fetchFailed, pattern, userOrder, vec, demand,
                   best, migrated, plan, prevPlan, run, finished, joined, group,
                   fetched, failure, userCount, hsmCount, hsmTotal, scores>>

\* the for loop has spawned a task for every member
SpawnLoopEnds ==
    /\ pc \in SpawnPhases
    /\ toSpawn = <<>>
    /\ pc' = IF pc = "target_spawn" THEN "target_join" ELSE "parent_join"
    /\ UNCHANGED <<startVars, membership, doc, fetchFailed, pattern, userOrder, vec, demand,
                   best, migrated, plan, prevPlan, run, permits, toSpawn, inflight,
                   finished, joined, group, fetched, failure, userCount, hsmCount,
                   hsmTotal, scores>>

\* the task of node n ends: get_node_hw_component_count returned the
\* fingerprint, or the inventory request failed and unwrap() panicked
TaskEnds(n) ==
    /\ n \in inflight
    /\ inflight' = inflight \ {n}
    /\ finished' = finished \cup {n}
    /\ permits' = ReleasePermit(permits)
    /\ \E ok \in BOOLEAN : fetchFailed' = IF ok THEN fetchFailed ELSE fetchFailed \cup {n}
    /\ UNCHANGED <<startVars, pc, membership, doc, pattern, userOrder, vec, demand,
                   best, migrated, plan, prevPlan, run, toSpawn, joined, group,
                   fetched, failure, userCount, hsmCount, hsmTotal, scores>>

\* one turn of the join loop: the result of a task is pushed, a panic is logged
JoinNext ==
    /\ pc \in JoinPhases
    /\ \E n \in finished :
          /\ finished' = finished \ {n}
          /\ joined' = IF n \in fetchFailed THEN joined ELSE Append(joined, n)
    /\ UNCHANGED <<startVars, pc, membership, doc, fetchFailed, pattern, userOrder, vec, demand,
                   best, migrated, plan, prevPlan, run, permits, toSpawn, inflight,
                   group, fetched, failure, userCount, hsmCount, hsmTotal, scores>>

\* join_next() yields None and the join loop ends
JoinLoopEnds ==
    /\ pc \in JoinPhases
    /\ JoinSetEmpty(inflight, finished)
    /\ pc' = IF pc = "target_join" THEN "target_count" ELSE "collective_count"
    /\ UNCHANGED <<startVars, membership, doc, fetchFailed, pattern, userOrder, vec, demand,
                   best, migrated, plan, prevPlan, run, permits, toSpawn, inflight,
                   finished, joined, group, fetched, failure, userCount, hsmCount,
                   hsmTotal, scores>>

\* a vector left in the order in which the tasks were joined
sort_by_key_Skipped(v) == v

\* Vec::sort_by_key on the node name; the names of a vector are distinct
sort_by_key(v) == SortedSeq(Range(v))

\* the target vector is sorted and its filtered counters are computed; then
\* the parent members are listed and a new JoinSet and semaphore are made
CountTarget ==
    /\ pc = "target_count"
    /\ fetched' = [fetched EXCEPT !.target = sort_by_key(joined)]
    /\ group' = ParentMembers
    /\ toSpawn' = SortedSeq(ParentMembers)
    /\ permits' = SemaphorePermits
    /\ joined' = <<>>
    /\ pc' = "parent_spawn"
    /\ UNCHANGED <<startVars, membership, doc, fetchFailed, pattern, userOrder, vec, demand,
                   best, migrated, plan, prevPlan, run, inflight, finished,
                   failure, userCount, hsmCount, hsmTotal, scores>>

\* the parent vector is sorted; the collective vector, its counters, total,
\* weights and deltas are computed
CountCollective ==
    /\ pc = "collective_count"
    /\ fetched' = [fetched EXCEPT !.parent = sort_by_key(joined)]
    /\ pc' = "counted"
    /\ UNCHANGED <<startVars, membership, doc, fetchFailed, pattern, userOrder, vec, demand,
                   best, migrated, plan, prevPlan, run, permits, toSpawn, inflight,
                   finished, joined, group, failure, userCount, hsmCount, hsmTotal,
                   scores>>

\* exec at the target fetch phase: the members of the two groups are any
\* split of the nodes
InitFetch ==
    /\ \E t \in 0..MaxMembers :
          membership = [n \in FetchMembers |-> IF n <= t THEN "T" ELSE "P"]
    /\ doc = <<>>
    /\ fetchFailed = {}
    /\ pattern = <<>>
    /\ userOrder = <<>>
    /\ prevPlan = NoPlan
    /\ run = 1
    /\ pc = "target_spawn"
    /\ vec = <<>>
    /\ demand = <<>>
    /\ best = 0
    /\ migrated = <<>>
    /\ plan = NoPlan
    /\ failure = NoFailure
    /\ userCount = <<>>
    /\ hsmCount = NoCounts
    /\ hsmTotal = 0
    /\ scores = <<>>
    /\ permits = SemaphorePermits
    /\ toSpawn = SortedSeq(TargetMembers)
    /\ inflight = {}
    /\ finished = {}
    /\ joined = <<>>
    /\ group = TargetMembers
    /\ fetched = NoFetched
    /\ StartIdle

NextFetch ==
    \/ SpawnTask
    \/ SpawnLoopEnds
    \/ \E n \in FetchMembers : TaskEnds(n)
    \/ JoinNext
    \/ JoinLoopEnds
    \/ CountTarget
    \/ CountCollective

SpecFetch == InitFetch /\ [][NextFetch]_vars

\* the scheduler runs the main task and every spawned task, and every
\* inventory request returns or fails
FairSpecFetch ==
    /\ SpecFetch
    /\ WF_vars(SpawnTask)
    /\ WF_vars(SpawnLoopEnds)
    /\ \A n \in FetchMembers : WF_vars(TaskEnds(n))
    /\ WF_vars(JoinNext)
    /\ WF_vars(JoinLoopEnds)
    /\ WF_vars(CountTarget)
    /\ WF_vars(CountCollective)

\* ------------------------------------- exec: the pattern and the two groups
\* the group names: the one the patterns carry and the parent group the
\* command line handler passes
TargetName == "g"

ParentName == "nodes_free"

\* the tokens a pattern is made of, between its ':' separators
RawTokens == {"A100", "a100", "1", "2", "x"}

\* str::to_lowercase on a token
ToLower(t) == IF t = "A100" THEN "a100" ELSE t

\* str::parse::<usize>: Ok(value) for a decimal number, Err otherwise
ParseUsize(t) ==
    IF t = "1" THEN [ok |-> TRUE, value |-> 1]
    ELSE IF t = "2" THEN [ok |-> TRUE, value |-> 2]
    ELSE [ok |-> FALSE, value |-> 0]

\* HashMap::insert: a key already present gets the new value
HashMapInsert(m, k, v) == [x \in DOMAIN m \cup {k} |-> IF x = k THEN v ELSE m[x]]

\* the answers of the group service for a label it does not have: an empty
\* list or an error
UnknownGroupAnswers == {"empty", "err"}

\* pattern.to_lowercase(), split(':'), remove(0)
SplitPattern ==
    /\ pc = "entry"
    /\ target_hsm_group_name' = ToLower(Head(pattern_arg))
    /\ pattern_element_vec' = [i \in 1..(Len(pattern_arg) - 1) |-> ToLower(pattern_arg[i + 1])]
    /\ pc' = "parse"
    /\ UNCHANGED <<planVars, pattern_arg, hsmGroups, user_defined_hw_component_count_hashmap,
                   hsm_group_target_members, hsm_group_parent_members, calls, logged, panicked>>

\* one turn of the loop over pattern_element_vec.chunks(2)
ParseChunk ==
    /\ pc = "parse"
    /\ panicked = ""
    /\ pattern_element_vec # <<>>
    /\ IF Len(pattern_element_vec) = 1
       THEN \* hw_component_counter[1] on a chunk of one element
            /\ panicked' = "index out of bounds"
            /\ UNCHANGED <<pattern_element_vec, user_defined_hw_component_count_hashmap, logged>>
       ELSE LET counter == ParseUsize(pattern_element_vec[2])
            IN /\ IF counter.ok
                  THEN /\ user_defined_hw_component_count_hashmap' =
                             HashMapInsert(user_defined_hw_component_count_hashmap,
                                           pattern_element_vec[1], counter.value)
                       /\ UNCHANGED logged
                  ELSE /\ logged' = logged + 1
                       /\ UNCHANGED user_defined_hw_component_count_hashmap
               /\ pattern_element_vec' = SubSeq(pattern_element_vec, 3, Len(pattern_element_vec))
               /\ UNCHANGED panicked
    /\ UNCHANGED <<pc, planVars, pattern_arg, hsmGroups, target_hsm_group_name,
                   hsm_group_target_members, hsm_group_parent_members, calls>>

\* the loop is over: the mapping is printed and its keys are sorted
ParseEnds ==
    /\ pc = "parse"
    /\ panicked = ""
    /\ pattern_element_vec = <<>>
    /\ pc' = "target_lookup"
    /\ UNCHANGED <<planVars, startVars>>

\* http_client::get of the target group, .unwrap().first().unwrap_or(empty group)
GetTargetGroup ==
    /\ pc = "target_lookup"
    /\ panicked = ""
    /\ calls' = Append(calls, "members")
    /\ IF target_hsm_group_name \in DOMAIN hsmGroups
       THEN /\ hsm_group_target_members' = hsmGroups[target_hsm_group_name]
            /\ pc' = "target_inventory"
            /\ UNCHANGED panicked
       ELSE \E answer \in UnknownGroupAnswers :
               IF answer = "empty"
               THEN /\ hsm_group_target_members' = {}
                    /\ pc' = "target_inventory"
                    /\ UNCHANGED panicked
               ELSE /\ panicked' = "unwrap on Err"
                    /\ UNCHANGED <<pc, hsm_group_target_members>>
    /\ UNCHANGED <<planVars, pattern_arg, hsmGroups, pattern_element_vec, target_hsm_group_name,
                   user_defined_hw_component_count_hashmap, hsm_group_parent_members, logged>>

\* the fetch of the target members: one inventory request per member
TargetInventory ==
    /\ pc = "target_inventory"
    /\ panicked = ""
    /\ calls' = calls \o [i \in 1..Cardinality(hsm_group_target_members) |-> "inventory"]
    /\ pc' = "parent_lookup"
    /\ UNCHANGED <<planVars, pattern_arg, hsmGroups, pattern_element_vec, target_hsm_group_name,
                   user_defined_hw_component_count_hashmap, hsm_group_target_members,
                   hsm_group_parent_members, logged, panicked>>

\* http_client::get of the parent group, .unwrap().first().unwrap()
GetParentGroup ==
    /\ pc = "parent_lookup"
    /\ panicked = ""
    /\ calls' = Append(calls, "members")
    /\ IF ParentName \in DOMAIN hsmGroups
       THEN /\ hsm_group_parent_members' = hsmGroups[ParentName]
            /\ pc' = "parent_inventory"
            /\ UNCHANGED panicked
       ELSE \E answer \in UnknownGroupAnswers :
               /\ panicked' = IF answer = "empty" THEN "unwrap on None" ELSE "unwrap on Err"
               /\ UNCHANGED <<pc, hsm_group_parent_members>>
    /\ UNCHANGED <<planVars, pattern_arg, hsmGroups, pattern_element_vec, target_hsm_group_name,
                   user_defined_hw_component_count_hashmap, hsm_group_target_members, logged>>

\* the patterns: a group name and up to MaxTokens tokens
PatternArgs == {<<TargetName>> \o t : t \in UNION {[1..n -> RawTokens] : n \in 0..MaxTokens}}

\* what the group service holds
HsmGroups == UNION {[S -> SUBSET NodeIds] : S \in SUBSET {TargetName, ParentName}}

InitStart ==
    /\ pattern_arg \in PatternArgs
    /\ hsmGroups \in HsmGroups
    /\ pc = "entry"
    /\ pattern_element_vec = <<>>
    /\ target_hsm_group_name = ""
    /\ user_defined_hw_component_count_hashmap = <<>>
    /\ hsm_group_target_members = {}
    /\ hsm_group_parent_members = {}
    /\ calls = <<>>
    /\ logged = 0
    /\ panicked = ""
    /\ membership = [n \in NodeIds |-> "-"]
    /\ doc = <<>>
    /\ fetchFailed = {}
    /\ pattern = <<>>
    /\ userOrder = <<>>
    /\ prevPlan = NoPlan
    /\ run = 1
    /\ vec = <<>>
    /\ demand = <<>>
    /\ best = 0
    /\ migrated = <<>>
    /\ plan = NoPlan
    /\ failure = NoFailure
    /\ userCount = <<>>
    /\ hsmCount = NoCounts
    /\ hsmTotal = 0
    /\ scores = <<>>
    /\ FetchIdle

NextStart ==
    \/ SplitPattern
    \/ ParseChunk
    \/ ParseEnds
    \/ GetTargetGroup
    \/ TargetInventory
    \/ GetParentGroup

SpecStart == InitStart /\ [][NextStart]_vars

\* ----------------------------- apply_hsm_based_on_node_quantity: the fetches
\* the variables the fetch phases of the node-quantity planner leave alone
nqRest == <<startVars, membership, doc, pattern, userOrder, vec, demand, best, migrated,
            plan, prevPlan, run, fetched, failure, userCount, hsmCount, hsmTotal, scores>>

\* the phases in which the tasks in flight hold a permit of the semaphore
NqPermitPhases == {"nq_target_spawn", "nq_target_join"}

NqJoinPhases == {"nq_target_join", "nq_parent_join"}

\* one turn of the for loop over the target members: acquire a permit, spawn
NqSpawnTarget ==
    /\ pc = "nq_target_spawn"
    /\ toSpawn # <<>>
    /\ CanAcquire(permits)
    /\ permits' = permits - 1
    /\ inflight' = inflight \cup {Head(toSpawn)}
    /\ toSpawn' = Tail(toSpawn)
    /\ UNCHANGED <<pc, nqRest, fetchFailed, finished, joined, group>>

\* one turn of the for loop over the free-pool members: spawn, no permit
NqSpawnParent ==
    /\ pc = "nq_parent_spawn"
    /\ toSpawn # <<>>
    /\ inflight' = inflight \cup {Head(toSpawn)}
    /\ toSpawn' = Tail(toSpawn)
    /\ UNCHANGED <<pc, nqRest, fetchFailed, permits, finished, joined, group>>

\* a for loop has spawned a task for every member
NqSpawnLoopEnds ==
    /\ pc \in {"nq_target_spawn", "nq_parent_spawn"}
    /\ toSpawn = <<>>
    /\ pc' = IF pc = "nq_target_spawn" THEN "nq_target_join" ELSE "nq_parent_join"
    /\ UNCHANGED <<nqRest, fetchFailed, permits, toSpawn, inflight, finished, joined, group>>

\* the task of node n ends: hsm_node_hw_profile returned, or the inventory
\* request failed and unwrap() panicked; a permit it holds is dropped
NqTaskEnds(n) ==
    /\ pc \in NqPermitPhases \cup {"nq_parent_spawn", "nq_parent_join"}
    /\ n \in inflight
    /\ inflight' = inflight \ {n}
    /\ finished' = finished \cup {n}
    /\ permits' = IF pc \in NqPermitPhases THEN ReleasePermit(permits) ELSE permits
    /\ \E ok \in BOOLEAN : fetchFailed' = IF ok THEN fetchFailed ELSE fetchFailed \cup {n}
    /\ UNCHANGED <<pc, nqRest, toSpawn, joined, group>>

\* one turn of a join loop
NqJoinNext ==
    /\ pc \in NqJoinPhases
    /\ \E n \in finished :
          /\ finished' = finished \ {n}
          /\ joined' = IF n \in fetchFailed THEN joined ELSE Append(joined, n)
    /\ UNCHANGED <<pc, nqRest, fetchFailed, permits, toSpawn, inflight, group>>

\* the join loop of the target ends; the free-pool group is looked up and a
\* new JoinSet is made
NqTargetJoinEnds ==
    /\ pc = "nq_target_join"
    /\ JoinSetEmpty(inflight, finished)
    /\ group' = ParentMembers
    /\ toSpawn' = SortedSeq(ParentMembers)
    /\ joined' = <<>>
    /\ pc' = "nq_parent_spawn"
    /\ UNCHANGED <<nqRest, fetchFailed, permits, inflight, finished>>

\* the join loop of the free pool ends
NqParentJoinEnds ==
    /\ pc = "nq_parent_join"
    /\ JoinSetEmpty(inflight, finished)
    /\ pc' = "nq_fetched"
    /\ UNCHANGED <<nqRest, fetchFailed, permits, toSpawn, inflight, finished, joined, group>>

\* the node-quantity exec at its first fetch: the members of the two groups
\* are any split of the nodes
InitNodeFetch ==
    /\ \E t \in 0..MaxMembers :
          membership = [n \in FetchMembers |-> IF n <= t THEN "T" ELSE "P"]
    /\ doc = <<>>
    /\ fetchFailed = {}
    /\ pattern = <<>>
    /\ userOrder = <<>>
    /\ prevPlan = NoPlan
    /\ run = 1
    /\ pc = "nq_target_spawn"
    /\ vec = <<>>
    /\ demand = <<>>
    /\ best = 0
    /\ migrated = <<>>
    /\ plan = NoPlan
    /\ failure = NoFailure
    /\ userCount = <<>>
    /\ hsmCount = NoCounts
    /\ hsmTotal = 0
    /\ scores = <<>>
    /\ permits = SemaphorePermits
    /\ toSpawn = SortedSeq(TargetMembers)
    /\ inflight = {}
    /\ finished = {}
    /\ joined = <<>>
    /\ group = TargetMembers
    /\ fetched = NoFetched
    /\ StartIdle

NextNodeFetch ==
    \/ NqSpawnTarget
    \/ NqSpawnParent
    \/ NqSpawnLoopEnds
    \/ \E n \in FetchMembers : NqTaskEnds(n)
    \/ NqJoinNext
    \/ NqTargetJoinEnds
    \/ NqParentJoinEnds

SpecNodeFetch == InitNodeFetch /\ [][NextNodeFetch]_vars

\* ------------------------------------------------- the two selection loops
\* either loop, on any of its inputs
InitLoops == Init \/ InitDown

NextLoops == Next \/ NextDown

SpecLoops == InitLoops /\ [][NextLoops]_vars

\* the positions at the head of the body of a while loop
InLoop == {"iterate", "down_iterate"}

\* =================================================================== claims
\* the fingerprint of a node as its fetch task and the join loop build it
Fingerprint(n) == NodeHwComponentCount(doc[n], userOrder)

\* total of key k over the fetched members of a set of nodes
TotalOver(nodes, k) == SumSet([n \in NodeIds |-> Fingerprint(n)[k]], nodes \ fetchFailed)

NewTarget == Range(plan.target)

NewParent == Range(plan.parent)

\* C1: in every plan that completes with every inventory fetch succeeded,
\* new_target and new_parent are disjoint and their union is the union of
\* the original TARGET and PARENT memberships.
C1_Conservation ==
    (pc = "done" /\ fetchFailed = {}) =>
        /\ NewTarget \cap NewParent = {}
        /\ NewTarget \cup NewParent = TargetMembers \cup ParentMembers

C1_Witness ==
    /\ pc = "done"
    /\ fetchFailed = {}
    /\ NewTarget # {}
    /\ NewParent # {}
    /\ NewTarget # TargetMembers

\* C2: if the capacity check accepted the request (every fetch succeeded),
\* then for every requested key the nodes of new_target together hold at
\* least the requested count.
C2_Feasibility ==
    (pc = "done" /\ fetchFailed = {}) =>
        \A k \in DOMAIN userCount : TotalOver(NewTarget, k) >= userCount[k]

\* the requested keys that some fetched member of a group carries: the
\* request after its filtering against the union
CarriedRequest == {k \in DOMAIN pattern : TotalOver(TargetMembers \cup ParentMembers, k) > 0}

\* the requested keys of which the nodes of TARGET and PARENT together, each
\* node counted once, hold less than requested
Short == {k \in CarriedRequest : TotalOver(TargetMembers \cup ParentMembers, k) < pattern[k]}

\* C3: if the nodes of TARGET and PARENT together hold less of some requested
\* key than requested, the plan fails with InsufficientCapacity naming such a
\* key with the requested and the available count, before any node is moved
\* and without a plan.
C3_InsufficientCapacity ==
    (pc \notin {"start", "fetched"} /\ Short # {}) =>
        /\ pc = "failed"
        /\ failure.key \in Short
        /\ failure.requested = pattern[failure.key]
        /\ failure.available = TotalOver(TargetMembers \cup ParentMembers, failure.key)
        /\ migrated = <<>>
        /\ ~plan.made

\* the nodes still in TARGET: its members less the nodes migrated so far
Remaining == TargetMembers \ {migrated[i].node : i \in 1..Len(migrated)}

\* C4: the downscale loop never moves a node out of TARGET when, after the
\* move, the TARGET total of a requested key would be less than requested:
\* a key of which TARGET held at least the requested count still does.
C4_NoOvershoot ==
    \A k \in DOMAIN pattern :
        TotalOver(TargetMembers, k) >= pattern[k] => TotalOver(Remaining, k) >= pattern[k]

\* C5: if the request equals the TARGET total on every requested key (all
\* fetches succeeded, no node in both groups, something requested), the plan
\* is the input memberships.
C5_Equilibrium ==
    (/\ pc = "done"
     /\ fetchFailed = {}
     /\ TargetMembers \cap ParentMembers = {}
     /\ DOMAIN pattern # {}
     /\ \A k \in DOMAIN pattern : pattern[k] > 0 /\ pattern[k] = TotalOver(TargetMembers, k)) =>
        /\ plan.target = SortedSeq(TargetMembers)
        /\ plan.parent = SortedSeq(ParentMembers)

\* C6: two runs on identical memberships, inventories and pattern return
\* identical plans.
C6_Determinism ==
    (pc = "done" /\ run = 2) => plan = prevPlan

\* C7: when several candidates share the highest score, the candidate that
\* is moved is the one with the smallest node id.
C7_TieBreak ==
    pc = "iterate" => best = Min(BestCandidates(scores))
\* C8: at every moment at most 5 inventory requests are outstanding, over
\* the target and the parent fetch phase together.
C8_BoundedFanOut == Cardinality(inflight) <= 5

C8_Witness ==
    /\ Cardinality(inflight) = 5
    /\ permits = 0
    /\ toSpawn # <<>>

\* C9: if every inventory request returns or fails, both fetch phases
\* finish: every member is spawned and joined, whatever the size of a group.
C9_FetchFinishes ==
    <>(pc = "counted" /\ toSpawn = <<>> /\ inflight = {} /\ finished = {})

C9_Witness ==
    /\ pc = "counted"
    /\ Cardinality(ParentMembers) > SemaphorePermits
    /\ fetchFailed # {}
    /\ Len(fetched.parent) + Cardinality(fetchFailed) = Cardinality(ParentMembers)

\* C10: no inventory request is outstanding, and no task is left to spawn or
\* to join, while a group total, weight or delta is computed or a node chosen.
C10_FetchBeforeAggregation ==
    pc \in {"target_count", "collective_count", "counted"} =>
        /\ inflight = {}
        /\ finished = {}
        /\ toSpawn = <<>>

C10_Witness ==
    /\ pc = "collective_count"
    /\ fetched.target # <<>>
    /\ joined # <<>>

\* C11: when the inventory fetch of a node fails, the plan completes and in
\* it the node is a member of the group it belonged to in the input.
C11_FailedNodeStays ==
    pc = "done" =>
        \A n \in fetchFailed :
            /\ membership[n] = "T" => n \in NewTarget /\ n \notin NewParent
            /\ membership[n] = "P" => n \in NewParent /\ n \notin NewTarget

\* C12: both selection loops terminate, and the number of nodes moved is at
\* most the number of distinct nodes of the original TARGET and PARENT: the
\* body of a loop always finds its candidate in the vector, every turn of
\* a loop makes the vector shorter, and the moves never exceed the nodes.
C12_LoopsTerminate ==
    /\ [](Len(migrated) <= Cardinality(TargetMembers \cup ParentMembers))
    /\ [](pc \in InLoop => best \in NodesOf(vec))
    /\ [][(pc \in InLoop) => (Len(vec) > Len(vec'))]_vars

C12_Witness ==
    /\ pc = "done"
    /\ fetchFailed = {}
    /\ Len(migrated) = MaxNodes
    /\ Cardinality(TargetMembers \cup ParentMembers) = MaxNodes

\* C13: a plan fed back as the TARGET and PARENT memberships, with the same
\* inventories and the same request, returns that same plan again.
C13_ReplanStable ==
    (pc = "done" /\ run = 2 /\ fetchFailed = {}) =>
        /\ Range(plan.target) = Range(prevPlan.target)
        /\ Range(plan.parent) = Range(prevPlan.parent)

\* C14: with an empty PARENT, if a set S of TARGET nodes, each carrying a
\* requested component, supplies exactly the requested counts and no TARGET
\* node outside S carries a requested component, the plan is new_target = S
\* and new_parent = TARGET less S.
C14_ExactSubset ==
    \A S \in SUBSET TargetMembers :
        (/\ pc = "done"
         /\ fetchFailed = {}
         /\ ParentMembers = {}
         /\ DOMAIN pattern # {}
         /\ \A k \in DOMAIN pattern : pattern[k] > 0 /\ TotalOver(S, k) = pattern[k]
         /\ \A n \in S : \E k \in DOMAIN pattern : Fingerprint(n)[k] > 0
         /\ \A n \in TargetMembers \ S : \A k \in DOMAIN pattern : Fingerprint(n)[k] = 0)
        => NewTarget = S /\ NewParent = TargetMembers \ S

\* C15 as stated: with no PARENT member, a request that exceeds the TARGET
\* total of some key fails with InsufficientCapacity.
C15_AnyKey ==
    (/\ pc \notin {"start", "fetched"}
     /\ ParentMembers = {}
     /\ \E k \in DOMAIN pattern : pattern[k] > TotalOver(TargetMembers, k)) =>
        pc = "failed"

\* C15 amended: with no PARENT member, a request that exceeds the TARGET
\* total of some key that a TARGET node carries fails with
\* InsufficientCapacity, which names such a key.
C15_EmptyParent ==
    (/\ pc \notin {"start", "fetched"}
     /\ ParentMembers = {}
     /\ \E k \in CarriedRequest : pattern[k] > TotalOver(TargetMembers, k)) =>
        /\ pc = "failed"
        /\ failure.key \in CarriedRequest
        /\ failure.requested > TotalOver(TargetMembers, failure.key)
        /\ failure.available = TotalOver(TargetMembers, failure.key)

C15_Witness ==
    /\ pc = "failed"
    /\ ParentMembers = {}
    /\ fetchFailed = {}
    /\ failure = [key |-> "a100", requested |-> 2, available |-> 1]

\* C17: a node whose fingerprint has no non-zero count is never moved into
\* the target by the upscale loop.
C17_ZeroFingerprintStays ==
    \A i \in 1..Len(migrated) : \E k \in AllKeys : migrated[i].hw[k] > 0

\* the pairs of the lower-cased pattern: pair j is tokens 2j and 2j+1 of pattern_arg
NumPairs == (Len(pattern_arg) - 1) \div 2

PairKey(j) == ToLower(pattern_arg[2 * j])

PairCount(j) == ToLower(pattern_arg[2 * j + 1])

\* C16: when the group service does not have the group, whether it is the
\* target or the parent group, exec does not fail at the lookup and goes on
\* with an empty membership for that group.
C16_UnknownGroupIsEmpty ==
    /\ (TargetName \notin DOMAIN hsmGroups /\ pc = "target_lookup") => panicked = ""
    /\ (TargetName \notin DOMAIN hsmGroups /\ pc \in {"target_inventory", "parent_lookup", "parent_inventory"}) =>
           hsm_group_target_members = {}
    /\ (ParentName \notin DOMAIN hsmGroups /\ pc = "parent_lookup") => panicked = ""
    /\ (ParentName \notin DOMAIN hsmGroups /\ pc = "parent_inventory") =>
           hsm_group_parent_members = {}

\* C18: a pattern with an odd trailing token after the group name is
\* rejected with the pattern error: exec neither goes past the parsing loop
\* nor ends in a panic.
C18_OddTrailingToken ==
    (Len(pattern_arg) >= 2 /\ (Len(pattern_arg) - 1) % 2 = 1) =>
        /\ pc \in {"entry", "parse"}
        /\ panicked = ""

\* C19: a pattern with a count token that is not a non-negative decimal
\* integer aborts before any I/O: no request is sent to the group service
\* or to the inventory service.
C19_BadCountNoIO ==
    (\E j \in 1..NumPairs : ~ParseUsize(PairCount(j)).ok) => calls = <<>>

\* C20: a pattern that names a component key twice is rejected: exec does
\* not leave the parsing loop with a mapping.
C20_DuplicateKeyRejected ==
    (\E i, j \in 1..NumPairs : i # j /\ PairKey(i) = PairKey(j)) =>
        pc \in {"entry", "parse"}


\* C21: whatever the order in which the fetch tasks of a group end and are
\* joined, the vector of the group handed to the aggregation is the same:
\* the members whose fetch succeeded, in ascending node order.
C21_FetchOrderIndependent ==
    /\ pc \in {"parent_spawn", "parent_join", "collective_count", "counted"} =>
          fetched.target = SortedSeq(TargetMembers \ fetchFailed)
    /\ pc = "counted" => fetched.parent = SortedSeq(ParentMembers \ fetchFailed)

C21_Witness ==
    /\ pc = "counted"
    /\ Len(fetched.parent) >= 2
    /\ joined # fetched.parent
    /\ Len(fetched.target) >= 2


\* C22: in every plan, new_target and new_parent are each in ascending
\* node order.
C22_Sorted ==
    pc = "done" =>
        /\ \A i, j \in 1..Len(plan.target) : i < j => plan.target[i] <= plan.target[j]
        /\ \A i, j \in 1..Len(plan.parent) : i < j => plan.parent[i] <= plan.parent[j]

C22_Witness ==
    /\ pc = "done"
    /\ Len(migrated) = 2
    /\ migrated[1].node > migrated[2].node
    /\ plan.target = <<migrated[2].node, migrated[1].node>>


\* C23: new_target is the original TARGET members, minus the nodes the
\* downscale loop moved out (exec runs no downscale loop: none), plus the
\* nodes the upscale loop moved in; a TARGET node no loop moved is still a
\* member of new_target.
C23_TargetFrame ==
    (pc = "done" /\ fetchFailed = {}) =>
        NewTarget = TargetMembers \cup NodesOf(migrated)


\* C24: in every iteration of the upscale loop, the first included, the node
\* about to be moved into the target has the highest upscale score among the
\* candidates left, for the demand still outstanding.
C24_UpscalePick ==
    (pc = "iterate" /\ hsmTotal > 0) =>
        best \in BestCandidates(
            calculate_hsm_hw_component_normalized_node_density_score_upscale(
                vec, demand, NormalizedNumerators(hsmCount), hsmTotal))


\* C25: the downscale scoring gives the minimum score to every node that
\* carries a requested key k of which the group would be left with less than
\* requested if the node were removed, whichever carried key that is.
C25_SafetyFloor ==
    pc = "down_start" =>
        \A i \in 1..Len(vec) :
            (\E k \in DOMAIN pattern :
                /\ Has(vec[i].hw, k)
                /\ hsmCount[k] - vec[i].hw[k] < pattern[k]) =>
                    scores[vec[i].node] = ScoreMin


\* C26: after each demand update in either loop, every entry left in the
\* demand map is strictly negative.
C26_DemandNegative ==
    [][(pc \in InLoop /\ vec' # <<>>) => \A k \in DOMAIN demand' : demand'[k] < 0]_vars


\* C27: the two delta maps come from d(k) = D(k) - T_T(k), T_T(k) the total
\* of k over the TARGET group alone: k is in to_add_to_target with value
\* -d(k) exactly when d(k) > 0, in to_remove_from_target with value d(k)
\* exactly when d(k) < 0, and in neither map when d(k) = 0.
C27_Deltas ==
    (pc \in {"iterate", "sort"} /\ migrated = <<>>) =>
        \A k \in DOMAIN userCount :
            LET d == userCount[k] - TotalOver(TargetMembers, k)
                to_remove == ExecDeltas(vec).to_parent
            IN /\ (d > 0) <=> (k \in DOMAIN demand /\ demand[k] = -d)
               /\ (d < 0) <=> (k \in DOMAIN to_remove /\ to_remove[k] = d)
               /\ (d = 0) => (k \notin DOMAIN demand /\ k \notin DOMAIN to_remove)


\* C28: for every component key that some TARGET node carries and that is
\* not in the request, to_remove_from_target holds that key with the value
\* minus its total over the TARGET nodes.
C28_UnrequestedKeys ==
    (pc \in {"iterate", "sort"} /\ migrated = <<>>) =>
        \A k \in AllKeys \ DOMAIN pattern :
            TotalOver(TargetMembers, k) > 0 =>
                LET to_remove == ExecDeltas(vec).to_parent
                IN k \in DOMAIN to_remove /\ to_remove[k] = -TotalOver(TargetMembers, k)


\* to_remove_from_target as the downscale loop is handed it at the start
InitialToRemove ==
    calculate_all_deltas(pattern,
        get_hsm_hw_component_count_filtered_by_user_request(
            DOMAIN pattern, HsmNodeHwComponentCountVec(TargetMembers))).to_parent

\* total of key k over the nodes the loop has moved
MovedTotal(k) == SumSeq([i \in 1..Len(migrated) |-> migrated[i].hw[k]])

\* C29: for each key k of the initial to_remove_from_target, the nodes the
\* downscale loop has moved out hold together at most |to_remove(k)| of k,
\* and the loop goes on to move its best candidate only when the candidate
\* carries no more of any demand key than is still outstanding.
C29_DownscaleFloor ==
    /\ \A k \in DOMAIN InitialToRemove : MovedTotal(k) <= Abs(InitialToRemove[k])
    /\ pc = "down_iterate" =>
          \A k \in DOMAIN demand :
              Has(FirstEntry(vec, best).hw, k) => FirstEntry(vec, best).hw[k] <= Abs(demand[k])

C29_Witness ==
    /\ pc = "down_done"
    /\ migrated # <<>>
    /\ vec # <<>>
    /\ best \in NodesOf(vec)
    /\ \E k \in DOMAIN demand :
          /\ Abs(demand[k]) = 1
          /\ FirstEntry(vec, best).hw[k] > Abs(demand[k])


\* C30: in the node-quantity planner at most 5 inventory requests are
\* outstanding at any time, during the fetch of the target members and
\* during the fetch of the free-pool members.
C30_NodeQuantityFanOut ==
    pc \in {"nq_target_spawn", "nq_target_join", "nq_parent_spawn", "nq_parent_join"} =>
        Cardinality(inflight) <= SemaphorePermits


\* C31: every inventory the planner works on, the collective vector of
\* TARGET and PARENT included, holds at most one entry per node, also when a
\* node is a member of both groups.
C31_OneEntryPerNode ==
    \A i, j \in 1..Len(vec) : i # j => vec[i].node # vec[j].node


\* the candidate set the upscale loop starts from: the members of either
\* group whose inventory was fetched
InitialCandidates == (TargetMembers \cup ParentMembers) \ fetchFailed

\* C32: at every iteration of the upscale loop the nodes already moved and
\* the nodes of the remaining candidate vector are disjoint and together are
\* the initial candidate set, and each iteration moves exactly one node from
\* the candidates to the moved nodes.
C32_Partition ==
    /\ [](pc \in {"iterate", "sort", "done"} =>
            /\ NodesOf(migrated) \cap NodesOf(vec) = {}
            /\ NodesOf(migrated) \cup NodesOf(vec) = InitialCandidates
            /\ Cardinality(NodesOf(migrated)) = Len(migrated))
    /\ [][pc = "iterate" =>
            \E n \in NodesOf(vec) :
                /\ NodesOf(vec') = NodesOf(vec) \ {n}
                /\ Len(migrated') = Len(migrated) + 1
                /\ migrated'[Len(migrated')].node = n
                /\ SubSeq(migrated', 1, Len(migrated)) = migrated]_vars

C32_Witness ==
    /\ pc = "iterate"
    /\ Len(migrated) = 1
    /\ vec # <<>>
    /\ fetchFailed = {}


\* C33: across the iterations of either loop no entry of the demand map is
\* positive, the magnitude of an entry never grows, and a key that has left
\* the map never comes back.
C33_DemandMonotone ==
    /\ [](\A k \in DOMAIN demand : demand[k] <= 0)
    /\ [][(pc \in InLoop) =>
            ((DOMAIN demand' \subseteq DOMAIN demand) /\
             (\A k \in DOMAIN demand' : (Abs(demand'[k]) <= Abs(demand[k]))))]_vars

C33_Witness ==
    /\ pc \in InLoop
    /\ Len(migrated) = 1
    /\ \E k \in DOMAIN demand : demand[k] = -1 /\ migrated[1].hw[k] = 1
    /\ \E k \in DOMAIN pattern : k \notin DOMAIN demand


\* the removal check can be evaluated for every entry of v against the group
\* totals: each requested key an entry carries is a key of the totals, with
\* a total that is at least the entry's own count
RemovalCheckDefined(v, user, totals) ==
    \A i \in 1..Len(v) : \A k \in DOMAIN user :
        Has(v[i].hw, k) => (HsmHas(v, k) /\ totals[k] >= v[i].hw[k])

====
